---- MODULE Spec2Model ----
(***************************************************************************)
(* A model of main.py: CelestialObject, Planet and SolarSystem.            *)
(*                                                                         *)
(* Python floats are modelled by integers (a fixed-point grid): every      *)
(* division truncates toward zero and math.dist is the integer square      *)
(* root.  The order of the arithmetic, of the reads and of the writes is   *)
(* the order of the source.  G, TIME_STEP and SCALE are given in model     *)
(* units; SCALE is the fraction ScaleNum / ScaleDen.                       *)
(*                                                                         *)
(* Every planet's parent_star is the star, as in create_solar_system.  The *)
(* setters set_position and set_velocity are folded into the constructors' *)
(* position and velocity arguments.  draw, which changes nothing, is left  *)
(* out.                                                                    *)
(*                                                                         *)
(* Objects are records.  The field id is the object's identity (Python's   *)
(* default == on objects without __eq__ compares identities): the star is  *)
(* object 0 and the i-th planet built is object i.                         *)
(***************************************************************************)
EXTENDS Integers, Sequences, FiniteSets, TLC

\* ---------------------------------------------------------------- bounds
MaxPlanets == 2
MaxSteps == 4

\* ------------------------------------------------- constants (model units)
\* The source's values (6.67428e-11, 86400 s, 120 / AU) are in SI units; here
\* the units of length, mass and time are chosen so that the three constants
\* are small integers and gravity moves bodies a few grid cells per step.
G == 4
TIME_STEP == 2
\* SCALE == ScaleNum / ScaleDen
ScaleNum == 1
ScaleDen == 4

\* Arguments the constructors are called with.
MassValues == {-6, 0, 2, 6}
PositiveMassValues == {m \in MassValues : m > 0}
PositionValues == {<<0, 0>>, <<3, 0>>, <<0, -5>>, <<-8, 0>>}
VelocityValues == {<<0, 0>>, <<0, 1>>}

VARIABLES
    star,       \* SolarSystem.star: a CelestialObject record, or NoObject
    planets,    \* SolarSystem.planets: the list of Planet records
    built,      \* TRUE once SolarSystem.__init__ has run
    err,        \* "none", or the exception that ended update_positions
    k,          \* number of update_positions calls that returned normally
    history,    \* per planet, every position it was integrated to, in order
    last        \* what the latest update_positions call read and computed

vars == <<star, planets, built, err, k, history, last>>

NoObject == [id |-> -1]

\* ------------------------------------------------------------ arithmetic
Abs(a) == IF a < 0 THEN -a ELSE a

\* Float division a / b for b # 0, on the integer grid: truncation.
Quot(a, b) ==
    IF (a >= 0) = (b > 0) THEN Abs(a) \div Abs(b) ELSE -(Abs(a) \div Abs(b))

RECURSIVE ISqrt(_)
ISqrt(n) ==
    IF n < 2 THEN n
    ELSE LET s == 2 * ISqrt(n \div 4)
             l == s + 1
         IN  IF l * l > n THEN s ELSE l

\* math.dist(p, q)
Dist(p, q) ==
    ISqrt((q[1] - p[1]) * (q[1] - p[1]) + (q[2] - p[2]) * (q[2] - p[2]))

\* --------------------------------------------------------- CelestialObject
\* CelestialObject.__init__: no argument is validated.
NewCelestialObject(ident, mass, position, velocity) ==
    [id |-> ident, mass |-> mass,
     x |-> position[1], y |-> position[2],
     x_vel |-> velocity[1], y_vel |-> velocity[2]]

get_position(b) == <<b.x, b.y>>

\* The numbers a CelestialObject holds (what a comparison by value would see).
NumericState(b) == <<b.mass, b.x, b.y, b.x_vel, b.y_vel>>

calculate_distance_vectors(self, other_body) ==
    <<other_body.x - self.x, other_body.y - self.y>>

\* Raises ZeroDivisionError when the two positions are equal (distance**2 = 0).
calculate_force_vectors(self, other_body) ==
    LET dv == calculate_distance_vectors(self, other_body)
        distance == Dist(get_position(self), get_position(other_body))
    IN  IF distance = 0
        THEN [raised |-> TRUE, fx |-> 0, fy |-> 0]
        ELSE LET force == Quot(G * self.mass * other_body.mass, distance * distance)
             IN  [raised |-> FALSE,
                  fx |-> Quot(dv[1] * force, distance),     \* cos(theta) * force
                  fy |-> Quot(dv[2] * force, distance)]     \* sin(theta) * force

\* A mutant of SameObject: comparison by value.
SameValue(self, body) == NumericState(self) = NumericState(body)

\* `self == body`: the classes define no __eq__, so this is identity.
SameObject(self, body) == self.id = body.id

\* The loop of update_position over bodies[i..], in list order.  acc holds the
\* running totals and the reads made so far; the loop stops where
\* calculate_force_vectors raises.
RECURSIVE ForceLoop(_, _, _, _)

\* Lines 77-79 for one body: f is what calculate_force_vectors returned.
ForceLoopBody(self, bodies, i, acc, f) ==
    IF f.raised
    THEN [acc EXCEPT !.raised = TRUE]
    ELSE ForceLoop(self, bodies, i + 1,
                   [acc EXCEPT !.fx = @ + f.fx, !.fy = @ + f.fy])

ForceLoop(self, bodies, i, acc) ==
    IF i > Len(bodies) THEN acc
    ELSE IF SameObject(self, bodies[i]) THEN ForceLoop(self, bodies, i + 1, acc)
    ELSE ForceLoopBody(self, bodies, i,
             [acc EXCEPT !.reads =
                 Append(@, [by |-> get_position(self), of |-> bodies[i].id,
                            at |-> get_position(bodies[i])])],
             calculate_force_vectors(self, bodies[i]))

\* A mutant of Integrate: the position moves by the velocity before its update.
IntegrateOldVelocity(self, total_fx, total_fy) ==
    [self EXCEPT !.x_vel = @ + Quot(total_fx, self.mass) * TIME_STEP,
                 !.y_vel = @ + Quot(total_fy, self.mass) * TIME_STEP,
                 !.x = @ + self.x_vel * TIME_STEP,
                 !.y = @ + self.y_vel * TIME_STEP]

\* Lines 81-85, for self.mass # 0: velocity first, then position from the
\* new velocity.
Integrate(self, total_fx, total_fy) ==
    LET xv == self.x_vel + Quot(total_fx, self.mass) * TIME_STEP
        yv == self.y_vel + Quot(total_fy, self.mass) * TIME_STEP
    IN  [self EXCEPT !.x_vel = xv, !.y_vel = yv,
                     !.x = @ + xv * TIME_STEP,
                     !.y = @ + yv * TIME_STEP]

\* Lines 81-85 after the loop returned t.  total / self.mass raises
\* ZeroDivisionError for mass 0, before any field of self is assigned.
ApplyForce(self, t) ==
    IF t.raised \/ self.mass = 0
    THEN [body |-> self, raised |-> TRUE, fx |-> t.fx, fy |-> t.fy,
          reads |-> t.reads]
    ELSE [body |-> Integrate(self, t.fx, t.fy), raised |-> FALSE,
          fx |-> t.fx, fy |-> t.fy, reads |-> t.reads]

\* CelestialObject.update_position
CelestialObject_update_position(self, bodies) ==
    ApplyForce(self, ForceLoop(self, bodies, 1,
                   [fx |-> 0, fy |-> 0, raised |-> FALSE, reads |-> <<>>]))

\* ------------------------------------------------------------------ Planet
\* Planet.__init__
NewPlanet(ident, parent_star, mass, position, velocity) ==
    [id |-> ident, mass |-> mass,
     x |-> position[1], y |-> position[2],
     x_vel |-> velocity[1], y_vel |-> velocity[2],
     orbit |-> <<>>,
     parent_star |-> parent_star.id,
     distance_to_parent |-> Dist(position, get_position(parent_star))]

\* A mutant of PySuffix: the first n entries are kept.
PyPrefix(s, n) == SubSeq(s, 1, n)

\* A mutant of PySuffix: n = 0 keeps nothing.
LastN(s, n) == SubSeq(s, Len(s) - n + 1, Len(s))

\* The slice s[-n:] for n >= 0.  A start of -n < 0 counts from the end
\* (clamped at the front); -0 is 0, the front of the list.
PySuffix(s, n) ==
    LET start == IF -n < 0 THEN (IF Len(s) - n > 0 THEN Len(s) - n ELSE 0) ELSE 0
    IN  SubSeq(s, start + 1, Len(s))

\* int(self.distance_to_parent * SCALE)
TailLength(distance_to_parent) == (distance_to_parent * ScaleNum) \div ScaleDen

\* Lines 147-148
Prune(orbit, tail_length) ==
    IF Len(orbit) > tail_length THEN PySuffix(orbit, tail_length) ELSE orbit

\* Lines 141-148 on the integrated planet p, with distance d to its parent.
MaintainTrail(p, d) ==
    [p EXCEPT !.distance_to_parent = d,
              !.orbit = Prune(Append(@, get_position(p)), TailLength(d))]

\* Lines 140-148 after super().update_position returned r (an exception
\* leaves the method at line 140).
AfterSuper(r, parent) ==
    IF r.raised THEN r
    ELSE [r EXCEPT !.body =
             MaintainTrail(@, Dist(get_position(r.body), get_position(parent)))]

\* Planet.update_position.  parent is the parent_star object as it is now.
Planet_update_position(self, bodies, parent) ==
    AfterSuper(CelestialObject_update_position(self, bodies), parent)

\* ------------------------------------------------------------- SolarSystem
\* The object a reference names, among the objects of the system as they are now.
ObjectById(bodies, ident) ==
    bodies[CHOOSE j \in 1..Len(bodies) : bodies[j].id = ident]

\* The record of a call of update_positions before any body is updated.
NoCall ==
    [called |-> FALSE, pre_star |-> NoObject, pre_planets |-> <<>>,
     reads |-> <<>>, force |-> <<>>, done |-> {}]

\* Lines 161-163: the loop over self.planets from the i-th on.  The list
\* bodies holds the objects themselves, so each planet reads the others as
\* they are when its turn comes.  The loop stops where a planet raises.
RECURSIVE PlanetLoop(_, _, _, _)

\* What the call records of the i-th body's update_position, which returned r.
Observe(obs, i, r) ==
    [obs EXCEPT !.reads[i] = r.reads,
                !.force[i] = <<r.fx, r.fy>>,
                !.done = IF r.raised THEN @ ELSE @ \cup {i}]

\* Line 163 for the i-th planet, whose update_position returned r.
PlanetLoopBody(st, ps, i, obs, r) ==
    IF r.raised
    THEN [star |-> st, planets |-> ps, raised |-> TRUE, obs |-> Observe(obs, i, r)]
    ELSE PlanetLoop(st, [ps EXCEPT ![i] = r.body], i + 1, Observe(obs, i, r))

\* bodies = [self.star] + self.planets
Bodies(st, ps) == <<st>> \o ps

PlanetLoop(st, ps, i, obs) ==
    IF i > Len(ps)
    THEN [star |-> st, planets |-> ps, raised |-> FALSE, obs |-> obs]
    ELSE PlanetLoopBody(st, ps, i, obs,
             Planet_update_position(
                 ps[i], Bodies(st, ps),
                 ObjectById(Bodies(st, ps), ps[i].parent_star)))

\* SolarSystem.update_positions: the star against the planets, then the
\* planets in list order against [star] + planets.
\* Line 159 returned r; lines 161-163 follow unless it raised.
AfterStar(st, ps, obs, r) ==
    IF r.raised
    THEN [star |-> st, planets |-> ps, raised |-> TRUE, obs |-> Observe(obs, 0, r)]
    ELSE PlanetLoop(r.body, ps, 1, Observe(obs, 0, r))

update_positions(st, ps) ==
    AfterStar(st, ps,
        [called |-> TRUE, pre_star |-> st, pre_planets |-> ps,
         reads |-> [i \in 0..Len(ps) |-> <<>>],
         force |-> [i \in 0..Len(ps) |-> <<0, 0>>],
         done |-> {}],
        CelestialObject_update_position(st, ps))

\* ----------------------------------------------------------------- actions
Init ==
    /\ star = NoObject
    /\ planets = <<>>
    /\ built = FALSE
    /\ err = "none"
    /\ k = 0
    /\ history = <<>>
    /\ last = NoCall

\* sun = CelestialObject(name, radius, color, mass), the mass among `masses`
CreateStarOf(masses) ==
    /\ star = NoObject
    /\ \E mass \in masses :
          star' = NewCelestialObject(0, mass, <<0, 0>>, <<0, 0>>)
    /\ UNCHANGED <<planets, built, err, k, history, last>>

\* Planet(name, sun, radius, color, mass, position, velocity), added to the
\* list, the mass among `masses`
CreatePlanetOf(masses) ==
    /\ star # NoObject
    /\ ~built
    /\ Len(planets) < MaxPlanets
    /\ \E mass \in masses, position \in PositionValues,
          velocity \in VelocityValues :
          planets' = Append(planets,
                            NewPlanet(Len(planets) + 1, star, mass, position, velocity))
    /\ history' = Append(history, <<>>)
    /\ UNCHANGED <<star, built, err, k, last>>

CreateStar == CreateStarOf(MassValues)

CreatePlanet == CreatePlanetOf(MassValues)

\* The callers that pass positive masses only, as create_solar_system does.
CreateStarPositive == CreateStarOf(PositiveMassValues)

CreatePlanetPositive == CreatePlanetOf(PositiveMassValues)

\* SolarSystem(name, sun, planets)
CreateSolarSystem ==
    /\ star # NoObject
    /\ ~built
    /\ built' = TRUE
    /\ UNCHANGED <<star, planets, err, k, history, last>>

\* One solar_system.update_positions() of the loop of run_simulation.  An
\* exception leaves the objects as they are when it is raised and ends the loop.
Returned(r) ==
    /\ star' = r.star
    /\ planets' = r.planets
    /\ err' = IF r.raised THEN "ZeroDivisionError" ELSE "none"
    /\ k' = IF r.raised THEN k ELSE k + 1
    /\ history' = [i \in 1..Len(planets) |->
                      IF i \in r.obs.done
                      THEN Append(history[i], get_position(r.planets[i]))
                      ELSE history[i]]
    /\ last' = r.obs

UpdatePositions ==
    /\ built
    /\ err = "none"
    /\ k < MaxSteps
    /\ Returned(update_positions(star, planets))
    /\ UNCHANGED built

Next ==
    \/ CreateStar
    \/ CreatePlanet
    \/ CreateSolarSystem
    \/ UpdatePositions

Spec == Init /\ [][Next]_vars

NextPositive ==
    \/ CreateStarPositive
    \/ CreatePlanetPositive
    \/ CreateSolarSystem
    \/ UpdatePositions

\* The systems whose bodies all have a positive mass.
SpecPositive == Init /\ [][NextPositive]_vars

\* ------------------------------------------------------- claims: helpers
Max(a, b) == IF a > b THEN a ELSE b

PlanetIds == 1..Len(planets)

\* The object with identity i as it is now, and as it was when the latest
\* update_positions call began.
Now(i) == IF i = 0 THEN star ELSE planets[i]
Before(i) == IF i = 0 THEN last.pre_star ELSE last.pre_planets[i]

\* The identities body i's update_position called calculate_force_vectors on,
\* in order.
Visited(i) == [n \in 1..Len(last.reads[i]) |-> last.reads[i][n].of]

\* The identities in the list body i is given, in list order, without its own:
\* self.planets for the star, [star] + planets for a planet.
Others(i) ==
    IF i = 0 THEN [n \in 1..Len(planets) |-> n]
    ELSE [n \in 1..Len(planets) |-> IF n <= i THEN n - 1 ELSE n]

IsPrefix(s, t) == Len(s) <= Len(t) /\ s = SubSeq(t, 1, Len(s))

\* The sum of the pairwise forces on `self` from the first n reads, each from
\* the position that read returned.
RECURSIVE SumOfReads(_, _, _)
SumOfReads(self, reads, n) ==
    IF n = 0 THEN <<0, 0>>
    ELSE LET rest == SumOfReads(self, reads, n - 1)
             f == calculate_force_vectors(
                      self,
                      [Before(reads[n].of) EXCEPT !.x = reads[n].at[1],
                                                  !.y = reads[n].at[2]])
         IN  <<rest[1] + f.fx, rest[2] + f.fy>>

\* ------------------------------------------------------------------ claims

\* C1: after k update_positions calls from a freshly built system, every
\* planet's trail has at most max(2, int(distance_to_parent * SCALE)) entries
\* and at most k entries, also where int(distance_to_parent * SCALE) is 0.
C1_TrailGrowthBound ==
    err = "none" =>
        \A i \in PlanetIds :
            /\ Len(planets[i].orbit)
                   <= Max(2, TailLength(planets[i].distance_to_parent))
            /\ Len(planets[i].orbit) <= k

\* C2: in one update_positions call every planet's forces are computed from
\* the star's already updated position and from the positions the other
\* planets had before the call (no planet reads a position another planet
\* was given in the same call); the star's forces are computed from the
\* positions the planets had before the call.
C2_MembersReadPreStepMembers ==
    last.called =>
        \A i \in DOMAIN last.reads : \A n \in 1..Len(last.reads[i]) :
            LET rd == last.reads[i][n]
            IN  IF rd.of = 0
                THEN i # 0 /\ rd.at = get_position(star)
                ELSE rd.at = get_position(Before(rd.of))

\* C3: once a planet has been updated, the last entry of its trail is its
\* current position, whatever int(distance_to_parent * SCALE) is.
C3_LastTrailEntryIsPosition ==
    \A i \in PlanetIds :
        Len(history[i]) >= 1 =>
            /\ Len(planets[i].orbit) >= 1
            /\ planets[i].orbit[Len(planets[i].orbit)] = get_position(planets[i])

\* C3 witness: a planet updated twice or more whose cap is 0 at its latest
\* update (below the length of its trail).
C3_Witness ==
    \E i \in PlanetIds :
        /\ last.called /\ i \in last.done
        /\ Len(history[i]) >= 2
        /\ TailLength(planets[i].distance_to_parent) = 0

\* C4: an update_positions call that raises (two bodies at one position)
\* has changed no body: the star and every planet are as they were when the
\* call began.
C4_AllOrNothing ==
    err # "none" => star = last.pre_star /\ planets = last.pre_planets

\* C5: a body's net force has no contribution from the body itself; the
\* exclusion is by identity, so every other object of the list contributes
\* (calculate_force_vectors is called on it), also one with the same numbers;
\* in a system of the star alone the net force is (0, 0) and the velocity is
\* left as it was.
C5_SelfExcludedByIdentity ==
    last.called =>
        /\ \A i \in DOMAIN last.reads :
              /\ \A n \in 1..Len(last.reads[i]) : last.reads[i][n].of # i
              /\ IsPrefix(Visited(i), Others(i))
              /\ i \in last.done => Visited(i) = Others(i)
        /\ (Len(planets) = 0 /\ 0 \in last.done) =>
              /\ last.force[0] = <<0, 0>>
              /\ star.x_vel = last.pre_star.x_vel
              /\ star.y_vel = last.pre_star.y_vel

\* C5 witness: a body whose update called calculate_force_vectors on another
\* object holding the same numbers as itself.
C5_Witness ==
    /\ last.called
    /\ \E i \in DOMAIN last.reads : \E n \in 1..Len(last.reads[i]) :
          /\ last.reads[i][n].of # i
          /\ NumericState(Before(last.reads[i][n].of)) = NumericState(Before(i))
          /\ last.reads[i][n].at = last.reads[i][n].by

\* C6: no object with mass <= 0 exists: the constructors reject it.
C6_NonPositiveMassRejected ==
    /\ star # NoObject => star.mass > 0
    /\ \A i \in PlanetIds : planets[i].mass > 0

\* C8: every mass is strictly positive and update_positions changes no mass,
\* no planet's parent reference, and neither the star nor the list of planets
\* (which objects, in which order).
C8_MassPositiveAndFrame ==
    last.called =>
        /\ star.id = last.pre_star.id
        /\ Len(planets) = Len(last.pre_planets)
        /\ \A i \in 0..Len(planets) :
              /\ Now(i).id = Before(i).id
              /\ Now(i).mass = Before(i).mass
              /\ Now(i).mass > 0
              /\ i # 0 => Now(i).parent_star = Before(i).parent_star

\* The part of C8 that does not rest on the masses being positive.
FrameOfUpdatePositions ==
    last.called =>
        /\ star.id = last.pre_star.id
        /\ Len(planets) = Len(last.pre_planets)
        /\ \A i \in 0..Len(planets) :
              /\ Now(i).id = Before(i).id
              /\ Now(i).mass = Before(i).mass
              /\ i # 0 => Now(i).parent_star = Before(i).parent_star

\* C9: a body integrated by update_position has read every other position
\* while it was still at its old position; its net force is the sum of the
\* pairwise forces of those reads; v' = v + (F / mass) * TIME_STEP; and
\* x' = x + v' * TIME_STEP with the new velocity v'.
C9_VelocityThenPosition ==
    last.called =>
        \A i \in last.done :
            /\ \A n \in 1..Len(last.reads[i]) :
                  last.reads[i][n].by = get_position(Before(i))
            /\ last.force[i] = SumOfReads(Before(i), last.reads[i], Len(last.reads[i]))
            /\ Now(i).x_vel = Before(i).x_vel
                                + Quot(last.force[i][1], Before(i).mass) * TIME_STEP
            /\ Now(i).y_vel = Before(i).y_vel
                                + Quot(last.force[i][2], Before(i).mass) * TIME_STEP
            /\ Now(i).x = Before(i).x + Now(i).x_vel * TIME_STEP
            /\ Now(i).y = Before(i).y + Now(i).y_vel * TIME_STEP

\* C9 witness: a body integrated from a nonzero velocity under a nonzero force
\* that changed its velocity.
C9_Witness ==
    /\ last.called
    /\ \E i \in last.done :
          /\ Before(i).x_vel # 0 \/ Before(i).y_vel # 0
          /\ last.force[i] # <<0, 0>>
          /\ <<Now(i).x_vel, Now(i).y_vel>> # <<Before(i).x_vel, Before(i).y_vel>>

\* C10: every planet's trail is the last Len(trail) positions it was
\* integrated to, in order: each update appends one entry at the end and
\* pruning removes entries from the front only.
C10_TrailIsSuffixOfHistory ==
    \A i \in PlanetIds :
        /\ Len(planets[i].orbit) <= Len(history[i])
        /\ planets[i].orbit =
               SubSeq(history[i],
                      Len(history[i]) - Len(planets[i].orbit) + 1,
                      Len(history[i]))

\* C10 witness: a trail that pruning has shortened from the front and that
\* still holds two or more distinct entries.
C10_Witness ==
    \E i \in PlanetIds :
        /\ Len(planets[i].orbit) >= 2
        /\ Len(planets[i].orbit) < Len(history[i])
        /\ planets[i].orbit[1] # planets[i].orbit[2]

====
